---- MODULE Spec2Model ----
(***************************************************************************)
(* Model of css3_completions.py: the completion classifier of the CSS3     *)
(* plugin.  A call of on_query_completions inspects the scope stacks the   *)
(* view reports at the cursor, at the start of the prefix and at the       *)
(* character before it, runs the cascade of scope tests and returns a      *)
(* completion list, with or without the INHIBIT_WORD_COMPLETIONS flag.     *)
(*                                                                         *)
(* The host keeps a scope name as the sequence of its dotted atoms,        *)
(* <<"meta", "function", "rgb", "css">>.  The strings the code takes apart *)
(* (scope names as scope_name() prints them, name prefixes) are sequences  *)
(* of tokens; the token "." is the dot, every other token is an            *)
(* indivisible run of characters: "meta.function.rgb.css" is               *)
(* <<"meta", ".", "function", ".", "rgb", ".", "css">>.                    *)
(***************************************************************************)
EXTENDS Integers, Sequences, FiniteSets, TLC

VARIABLES
    pc,         \* "idle", or "returned" once a call has returned
    call,       \* the function called and its plain arguments
    view,       \* the buffer: the scope stack of each point
    prefix,     \* the prefix argument of on_query_completions
    locations,  \* the cursor positions
    result,     \* the value returned
    data        \* the completion tables

vars == <<pc, call, view, prefix, locations, result, data>>

-----------------------------------------------------------------------------
(* Strings *)

\* The string that prints the atoms of segs with dots between them.
RECURSIVE Str(_)
Str(segs) ==
    IF Len(segs) = 0 THEN <<>>
    ELSE IF Len(segs) = 1 THEN <<segs[1]>>
    ELSE <<segs[1], ".">> \o Str(Tail(segs))

\* str.startswith(p)
startswith(str, p) ==
    /\ Len(p) <= Len(str)
    /\ SubSeq(str, 1, Len(p)) = p

\* str.split("."): the segments between the dots; always at least one.
RECURSIVE split(_)
split(str) ==
    IF \A i \in 1..Len(str) : str[i] # "."
    THEN <<str>>
    ELSE LET i == CHOOSE k \in 1..Len(str) :
                      /\ str[k] = "."
                      /\ \A j \in 1..(k - 1) : str[j] # "."
         IN  <<SubSeq(str, 1, i - 1)>> \o split(SubSeq(str, i + 1, Len(str)))

\* reversed(seq)
reversed(seq) == [i \in 1..Len(seq) |-> seq[Len(seq) + 1 - i]]

\* What get_name yields when the list index is out of range.
IndexError == <<"IndexError">>

\* get_name: the name of the innermost scope that starts with p.
RECURSIVE get_name_scan(_, _)
get_name_scan(rev, p) ==
    IF Len(rev) = 0 THEN <<>>
    ELSE IF startswith(Head(rev), p)
         THEN LET parts == split(Head(rev))
              IN  IF Len(parts) >= 2 THEN parts[Len(parts) - 1] ELSE IndexError
         ELSE get_name_scan(Tail(rev), p)

\* A get_name that scans the list from its first name on.
get_name_first_match(scopes, p) == get_name_scan(scopes, p)

get_name(scopes, p) == get_name_scan(reversed(scopes), p)

-----------------------------------------------------------------------------
(* The host's scope queries *)

\* One scope of a selector against one scope name: the selector's atoms
\* are the leading atoms of the name.  An empty atom (left by a trailing
\* dot, as in "entity.other.attribute-name.") stands for any atom.
scope_matches(sel, name) ==
    /\ Len(sel) <= Len(name)
    /\ \A i \in 1..Len(sel) : sel[i] = "" \/ sel[i] = name[i]

\* "a b c": scopes matching a, b and c occur in the stack in that order.
RECURSIVE path_matches(_, _)
path_matches(path, stack) ==
    IF Len(path) = 0 THEN TRUE
    ELSE IF Len(stack) = 0 THEN FALSE
    ELSE IF scope_matches(Head(path), Head(stack))
         THEN path_matches(Tail(path), Tail(stack))
         ELSE path_matches(path, Tail(stack))

\* A selector is a set of comma-separated alternatives; an alternative is
\* the path of its plain scopes and the set of its "-" scopes.
Alt(path, excl) == [path |-> path, excl |-> excl]

\* The scope stack of a point; outside the buffer there is no scope.
scope_stack(v, point) == IF point \in DOMAIN v THEN v[point] ELSE <<>>

\* view.match_selector(point, selector)
match_selector(v, point, selector) ==
    LET stack == scope_stack(v, point)
    IN  \E alt \in selector :
            /\ path_matches(alt.path, stack)
            /\ \A e \in alt.excl :
                   \A i \in 1..Len(stack) : ~scope_matches(e, stack[i])

\* view.scope_name(location).split(): the scope names as strings.
get_current_scopes(v, location) ==
    LET stack == scope_stack(v, location)
    IN  [i \in 1..Len(stack) |-> Str(stack[i])]

-----------------------------------------------------------------------------
(* Scope names and the selectors of the code *)

source_css == <<"source", "css">>
comment_block == <<"comment", "block", "css">>
meta_function == <<"meta", "function">>
meta_at_rule == <<"meta", "at-rule">>
meta_property_list == <<"meta", "property-list", "css">>
meta_property_value_pair == <<"meta", "property-value-pair">>
meta_page_margin_box == <<"meta", "page-margin-box", "css">>
meta_selector == <<"meta", "selector", "css">>
punctuation_keyword == <<"punctuation", "definition", "keyword", "css">>
punctuation_pseudo_element ==
    <<"punctuation", "definition", "entity", "pseudo-element", "css">>
punctuation_pseudo_class ==
    <<"punctuation", "definition", "entity", "pseudo-class", "css">>
attribute_name_dot == <<"entity", "other", "attribute-name", "">>
keyframes_declaration_list == <<"meta", "keyframes-declaration-list", "css">>
font_feature_type_block == <<"meta", "font-feature-type-block", "css">>
at_rule_page == <<"meta", "at-rule", "page", "css">>
at_rule_charset == <<"meta", "at-rule", "charset", "css">>

\* "meta.at-rule.<kind>.block.css"
at_rule_block(kind) == <<"meta", "at-rule", kind, "block", "css">>

\* "meta.descriptor.<family>"
meta_descriptor(family) == <<"meta", "descriptor", family>>

scopes_that_forbid_nested_at_rules ==
    { Alt(<<meta_property_list>>, {}),
      Alt(<<at_rule_block("font-face")>>, {}),
      Alt(<<at_rule_block("keyframes")>>, {}),
      Alt(<<at_rule_block("font-feature-values")>>, {}),
      Alt(<<at_rule_block("viewport")>>, {}),
      Alt(<<at_rule_block("color-profile")>>, {}),
      Alt(<<at_rule_block("counter-style")>>, {}),
      Alt(<<at_rule_block("page")>>, {}) }

-----------------------------------------------------------------------------
(* The static completion tables: CSS3.completions.{selectors, properties,  *)
(* functions, descriptors, types}.  Names are token strings, completion    *)
(* items are opaque.                                                       *)

StaticData ==
    [ s_at_rules |-> <<"@media", "@page", "@charset">>,
      s_nestable_at_rules |-> <<"@media", "@supports">>,
      s_keyframes_selector |-> <<"from", "to">>,
      s_font_feature_types |-> <<"@swash", "@styleset">>,
      s_page_margin_boxes |-> <<"@top-right", "@bottom-left">>,
      s_at_page_selectors |-> <<":left", ":right">>,
      s_pseudo_elements |-> <<"before", "after">>,
      s_pseudo_classes |-> <<"hover", "focus">>,
      s_html_tags |-> <<"div", "span">>,
      p_names |-> <<"color", "animation-name">>,
      p_name_to_completions |->
          (<<"color">> :> <<"red", "<color>">>) @@
          (<<"animation-name">> :> <<"none">>),
      p_allow_word_completions |-> {<<"animation-name">>},
      f_func_name_to_completions |->
          (<<"counter">> :> <<"<counter-style>">>) @@
          (<<"rgb">> :> <<"<number>", "<percentage>">>),
      f_allow_word_completions |-> {<<"counter">>, <<"var">>},
      d_font_face_descriptors |-> <<"src", "font-family">>,
      d_viewport_descriptors |-> <<"zoom">>,
      d_counter_style_descriptors |-> <<"system", "fallback">>,
      d_color_profile_descriptors |-> <<"src", "name">>,
      d_at_rule_to_completions_dict |->
          (<<"font-face">> :>
              ((<<"src">> :> <<"url()", "local()">>) @@
               (<<"font-family">> :> <<"<family-name>">>))) @@
          (<<"viewport">> :> (<<"zoom">> :> <<"auto", "<number>">>)) @@
          (<<"counter-style">> :>
              ((<<"system">> :> <<"cyclic", "numeric">>) @@
               (<<"fallback">> :> <<"<counter-style-name>">>))),
      d_allow_word_completions |-> {<<"font-family">>, <<"fallback">>},
      t_var |-> "var()" ]

-----------------------------------------------------------------------------
(* Return values *)

\* return None (also: falling off the end of a function)
None == [kind |-> "None", items |-> <<>>, inhibit |-> FALSE]

\* return <list>
List(items) == [kind |-> "list", items |-> items, inhibit |-> FALSE]

\* return <list>, sublime.INHIBIT_WORD_COMPLETIONS
Inhibit(items) == [kind |-> "tuple", items |-> items, inhibit |-> TRUE]

\* What a handler leaves behind: its return value and the tables after it.
Ret(value, dt) == [value |-> value, data |-> dt]

\* a += b in place of a + b: the left operand is extended.
list_add_in_place(a, b) == [value |-> a \o b, left |-> a \o b]

\* a + b on lists: a new list; the operands stay as they were.
list_add(a, b) == [value |-> a \o b, left |-> a]

\* dict.get(key, default)
dict_get(dict, key, default) == IF key \in DOMAIN dict THEN dict[key] ELSE default

-----------------------------------------------------------------------------
(* The lookups *)

get_property_values(dt, current_scopes) ==
    LET property_name == get_name(current_scopes, Str(meta_property_value_pair) \o <<".">>)
        sum == list_add(dict_get(dt.p_name_to_completions, property_name, <<>>),
                        <<dt.t_var>>)
        after == IF property_name \in DOMAIN dt.p_name_to_completions
                 THEN [dt EXCEPT !.p_name_to_completions[property_name] = sum.left]
                 ELSE dt
        completions == sum.value
    IN  IF property_name # <<>> /\ property_name \in dt.p_allow_word_completions
        THEN Ret(List(completions), after)
        ELSE Ret(Inhibit(completions), after)

\* A get_descriptors that leaves out the placeholder.
get_descriptors_without_var(dt, current_scopes, descriptors_for) ==
    LET descriptor_name == get_name(current_scopes,
                                    Str(<<"meta", "descriptor">>) \o <<".">> \o descriptors_for)
        completions_dict == dict_get(dt.d_at_rule_to_completions_dict,
                                     descriptors_for, <<>>)
        completions == dict_get(completions_dict, descriptor_name, <<>>)
    IN  IF descriptor_name # <<>> /\ descriptor_name \in dt.f_allow_word_completions
        THEN Ret(List(completions), dt)
        ELSE Ret(Inhibit(completions), dt)

get_descriptors(dt, current_scopes, descriptors_for) ==
    LET descriptor_name == get_name(current_scopes, Str(<<"meta", "descriptor">>) \o <<".">> \o descriptors_for)
        completions_dict == dict_get(dt.d_at_rule_to_completions_dict,
                                     descriptors_for, <<>>)
        sum == list_add(dict_get(completions_dict, descriptor_name, <<>>),
                        <<dt.t_var>>)
        after == IF /\ descriptors_for \in DOMAIN dt.d_at_rule_to_completions_dict
                    /\ descriptor_name \in DOMAIN completions_dict
                 THEN [dt EXCEPT !.d_at_rule_to_completions_dict[descriptors_for]
                                      [descriptor_name] = sum.left]
                 ELSE dt
        completions == sum.value
    IN  IF descriptor_name # <<>> /\ descriptor_name \in dt.f_allow_word_completions
        THEN Ret(List(completions), after)
        ELSE Ret(Inhibit(completions), after)

get_functions(dt, current_scopes) ==
    LET func_name == get_name(current_scopes, Str(meta_function) \o <<".">>)
        sum == list_add(dict_get(dt.f_func_name_to_completions, func_name, <<>>),
                        <<dt.t_var>>)
        after == IF func_name \in DOMAIN dt.f_func_name_to_completions
                 THEN [dt EXCEPT !.f_func_name_to_completions[func_name] = sum.left]
                 ELSE dt
        completions == sum.value
    IN  IF func_name # <<>> /\ func_name \in dt.f_allow_word_completions
        THEN Ret(List(completions), after)
        ELSE Ret(Inhibit(completions), after)

-----------------------------------------------------------------------------
(* The dispatchers *)

\* A property_name_scope that does not look for the property-value-pair.
property_name_scope_anywhere(v, location) ==
    \/ match_selector(v, location, {Alt(<<source_css, meta_property_list>>, {})})
    \/ match_selector(v, location, {Alt(<<source_css, meta_page_margin_box>>, {})})

property_name_scope(v, location) ==
    \/ match_selector(v, location,
           {Alt(<<source_css, meta_property_list>>, {meta_property_value_pair})})
    \/ match_selector(v, location,
           {Alt(<<source_css, meta_page_margin_box>>, {meta_property_value_pair})})

\* A should_offer_at_rule_completions that forgets the property list.
should_offer_in_property_list(v, location) ==
    IF ~match_selector(v, location,
            {Alt(<<at_rule_block("media")>>, {}), Alt(<<at_rule_block("supports")>>, {})})
    THEN FALSE
    ELSE ~match_selector(v, location,
              scopes_that_forbid_nested_at_rules \ {Alt(<<meta_property_list>>, {})})

should_offer_at_rule_completions(v, location) ==
    IF ~match_selector(v, location,
            {Alt(<<at_rule_block("media")>>, {}), Alt(<<at_rule_block("supports")>>, {})})
    THEN FALSE
    ELSE ~match_selector(v, location, scopes_that_forbid_nested_at_rules)

handle_selector_completions(dt, v, location) ==
    IF match_selector(v, location - 1, {Alt(<<punctuation_pseudo_element>>, {})})
    THEN Ret(Inhibit(dt.s_pseudo_elements), dt)
    ELSE IF match_selector(v, location - 1, {Alt(<<punctuation_pseudo_class>>, {})})
    THEN Ret(Inhibit(dt.s_pseudo_classes), dt)
    ELSE IF match_selector(v, location, {Alt(<<source_css>>, {attribute_name_dot})})
    THEN Ret(List(dt.s_html_tags), dt)
    ELSE Ret(None, dt)

\* A margin-box test without the "-meta.page-margin-box.css".
page_block_anywhere == {Alt(<<at_rule_block("page")>>, {})}

\* "meta.at-rule.page.block.css -meta.page-margin-box.css"
page_block_outside_margin_box == {Alt(<<at_rule_block("page")>>, {meta_page_margin_box})}

\* The branches of handle_completions_inside_at_rules after the first.
at_rule_branches(dt, v, location) ==
    LET current_scopes == get_current_scopes(v, location)
        in(selector) == match_selector(v, location, selector)
    IN  IF in({Alt(<<at_rule_block("keyframes")>>, {keyframes_declaration_list})})
        THEN Ret(Inhibit(dt.s_keyframes_selector), dt)
        ELSE IF in({Alt(<<at_rule_block("font-face")>>, {})})
        THEN IF in({Alt(<<source_css>>, {meta_descriptor("font-face")})})
             THEN Ret(Inhibit(dt.d_font_face_descriptors), dt)
             ELSE get_descriptors(dt, current_scopes, <<"font-face">>)
        ELSE IF in({Alt(<<at_rule_block("font-feature-values")>>, {})})
        THEN IF in({Alt(<<>>, {font_feature_type_block})})
             THEN Ret(Inhibit(dt.s_font_feature_types), dt)
             ELSE Ret(List(<<>>), dt)
        ELSE IF in({Alt(<<at_rule_block("viewport")>>, {})})
        THEN IF in({Alt(<<source_css>>, {meta_descriptor("viewport")})})
             THEN Ret(Inhibit(dt.d_viewport_descriptors), dt)
             ELSE get_descriptors(dt, current_scopes, <<"viewport">>)
        ELSE IF in(page_block_outside_margin_box)
        THEN Ret(Inhibit(dt.s_page_margin_boxes), dt)
        ELSE IF in({Alt(<<at_rule_page>>, {at_rule_block("page")})})
        THEN Ret(List(dt.s_at_page_selectors), dt)
        ELSE IF in({Alt(<<at_rule_charset>>, {})})
        THEN Ret(Inhibit(<<"\"UTF-8\";">>), dt)
        ELSE IF in({Alt(<<at_rule_block("counter-style")>>, {})})
        THEN IF in({Alt(<<>>, {meta_descriptor("counter-style")})})
             THEN Ret(Inhibit(dt.d_counter_style_descriptors), dt)
             ELSE get_descriptors(dt, current_scopes, <<"counter-style">>)
        ELSE IF in({Alt(<<at_rule_block("color-profile")>>, {})})
        THEN IF in({Alt(<<>>, {meta_descriptor("color-profile")})})
             THEN Ret(Inhibit(dt.d_color_profile_descriptors), dt)
             ELSE get_descriptors(dt, current_scopes, <<"color-profile">>)
        ELSE Ret(None, dt)

handle_completions_inside_at_rules(dt, v, location) ==
    IF should_offer_at_rule_completions(v, location)
    THEN Ret(Inhibit(dt.s_nestable_at_rules), dt)
    ELSE at_rule_branches(dt, v, location)

-----------------------------------------------------------------------------
(* The six tests of the cascade, in the order of the code *)

InsideFunction(v, start) ==
    match_selector(v, start, {Alt(<<source_css, meta_function>>, {})})

OutsideAtRules(v, start) ==
    /\ match_selector(v, start, {Alt(<<source_css>>, {meta_at_rule, meta_property_list})})
    /\ match_selector(v, start - 1, {Alt(<<punctuation_keyword>>, {})})

InsideAtRule(v, start) ==
    match_selector(v, start, {Alt(<<source_css, meta_at_rule>>, {})})

InsidePropertyValuePair(v, start) ==
    match_selector(v, start, {Alt(<<source_css, meta_property_value_pair>>, {})})

InsideSelector(v, start) ==
    match_selector(v, start, {Alt(<<meta_selector>>, {})})

\* A cascade that tests for property names before at-rules.
cascade_property_names_first(dt, v, start) ==
    LET current_scopes == get_current_scopes(v, start)
    IN  IF InsideFunction(v, start)
        THEN get_functions(dt, current_scopes)
        ELSE IF OutsideAtRules(v, start)
        THEN Ret(Inhibit(dt.s_at_rules), dt)
        ELSE IF property_name_scope(v, start)
        THEN Ret(Inhibit(dt.p_names), dt)
        ELSE IF InsideAtRule(v, start)
        THEN handle_completions_inside_at_rules(dt, v, start)
        ELSE IF InsidePropertyValuePair(v, start)
        THEN get_property_values(dt, current_scopes)
        ELSE IF InsideSelector(v, start)
        THEN handle_selector_completions(dt, v, start)
        ELSE Ret(None, dt)

\* The cascade of on_query_completions, from the start of the prefix on.
cascade(dt, v, start) ==
    LET current_scopes == get_current_scopes(v, start)
    IN  IF InsideFunction(v, start)
        THEN get_functions(dt, current_scopes)
        ELSE IF OutsideAtRules(v, start)
        THEN Ret(Inhibit(dt.s_at_rules), dt)
        ELSE IF InsideAtRule(v, start)
        THEN handle_completions_inside_at_rules(dt, v, start)
        ELSE IF property_name_scope(v, start)
        THEN Ret(Inhibit(dt.p_names), dt)
        ELSE IF InsidePropertyValuePair(v, start)
        THEN get_property_values(dt, current_scopes)
        ELSE IF InsideSelector(v, start)
        THEN handle_selector_completions(dt, v, start)
        ELSE Ret(None, dt)

\* An on_query_completions that looks for the comment before it counts
\* the cursors.
on_query_completions_comment_first(dt, v, pfx, locs) ==
    IF match_selector(v, locs[1], {Alt(<<comment_block>>, {})})
    THEN Ret(List(<<>>), dt)
    ELSE IF Len(locs) > 1
    THEN Ret(Inhibit(<<>>), dt)
    ELSE cascade(dt, v, locs[1] - Len(pfx))

\* An on_query_completions that looks for the comment at the start of the
\* prefix.
on_query_completions_comment_at_start(dt, v, pfx, locs) ==
    IF Len(locs) > 1
    THEN Ret(Inhibit(<<>>), dt)
    ELSE IF match_selector(v, locs[1] - Len(pfx), {Alt(<<comment_block>>, {})})
    THEN Ret(List(<<>>), dt)
    ELSE cascade(dt, v, locs[1] - Len(pfx))

on_query_completions(dt, v, pfx, locs) ==
    IF Len(locs) > 1
    THEN Ret(Inhibit(<<>>), dt)
    ELSE IF match_selector(v, locs[1], {Alt(<<comment_block>>, {})})
    THEN Ret(List(<<>>), dt)
    ELSE cascade(dt, v, locs[1] - Len(pfx))

-----------------------------------------------------------------------------
(* The inputs of a call *)

MaxDepth == 2      \* scopes pushed on top of the base scope at the start of the prefix
MaxPrefix == 1     \* characters of the prefix
MaxCursors == 2    \* cursors of a call

\* The scope names the tokenizer pushes inside a style sheet, outermost
\* construct first.
InnerLabels ==
    << at_rule_block("media"),
       at_rule_block("supports"),
       at_rule_block("keyframes"),
       keyframes_declaration_list,
       at_rule_block("font-face"),
       at_rule_block("font-feature-values"),
       font_feature_type_block,
       at_rule_block("viewport"),
       at_rule_block("counter-style"),
       at_rule_block("color-profile"),
       at_rule_charset,
       at_rule_page,
       at_rule_block("page"),
       meta_page_margin_box,
       meta_selector,
       <<"entity", "other", "attribute-name", "class", "css">>,
       meta_property_list,
       <<"meta", "descriptor", "font-face", "src", "css">>,
       <<"meta", "descriptor", "font-face", "font-family", "css">>,
       <<"meta", "descriptor", "viewport", "zoom", "css">>,
       <<"meta", "descriptor", "counter-style", "fallback", "css">>,
       <<"meta", "descriptor", "color-profile", "src", "css">>,
       <<"meta", "property-value-pair", "color", "css">>,
       <<"meta", "property-value-pair", "animation-name", "css">>,
       <<"meta", "function", "counter", "css">>,
       <<"meta", "function", "rgb", "css">>,
       <<"meta", "function", "foo", "css">>,
       comment_block >>

\* The base scope: a style sheet, or another language's document.
BaseLabels == { source_css, <<"text", "html", "basic">> }

\* The nestings of at most n of the inner scopes, as index sequences.
RECURSIVE Nestings(_)
Nestings(n) ==
    IF n = 0 THEN { <<>> }
    ELSE LET shorter == Nestings(n - 1)
         IN  shorter \cup
             { Append(t, i) : t \in { u \in shorter : Len(u) = n - 1 },
                              i \in 1..Len(InnerLabels) }

Increasing(t) == \A i \in 1..(Len(t) - 1) : t[i] < t[i + 1]

Tails ==
    { [i \in 1..Len(t) |-> InnerLabels[t[i]]] :
          t \in { u \in Nestings(MaxDepth) : Increasing(u) } }

\* Scope stacks at the start of the prefix.
StartStacks == { <<b>> \o t : b \in BaseLabels, t \in Tails }

\* Scope stacks of the character before the prefix.
PrevStacks ==
    { <<source_css>>,
      <<source_css, punctuation_keyword>>,
      <<source_css, meta_selector, punctuation_pseudo_element>>,
      <<source_css, meta_selector, punctuation_pseudo_class>> }

\* Scope stacks at the cursor, when it is not the start of the prefix.
CursorStacks == { <<source_css>>, <<source_css, comment_block>> }

\* The buffer: k characters of prefix end at the cursor; st, pv and cu are
\* the scopes at the start of the prefix, before it and at the cursor.
Cursor == MaxPrefix + 1

MakeView(k, st, pv, cu) ==
    [pt \in 0..Cursor |->
        IF pt = Cursor - k THEN st
        ELSE IF pt = Cursor - k - 1 THEN pv
        ELSE IF pt = Cursor THEN cu
        ELSE <<source_css>>]

NoView == [pt \in 0..Cursor |-> <<source_css>>]

-----------------------------------------------------------------------------------------------------------------------------------------------------
(* The inputs of the direct calls of get_name *)

MaxScopes == 3     \* scope names in a list given to get_name

NameLabels ==
    { Str(<<"source", "css">>),
      Str(<<"a", "b", "css">>),
      Str(<<"a", "b", "x", "css">>),
      <<"a", ".", "b", "x", ".", "y", ".", "css">>,
      Str(<<"a", "c", "css">>),
      Str(<<"b", "a", "css">>),
      Str(<<"meta", "function", "foo", "css">>) }

NamePrefixes ==
    { <<>>, <<"a">>, Str(<<"a", "b">>), Str(<<"a", "b">>) \o <<".">>,
      <<"b">>, Str(<<"meta", "function">>), <<"z">> }

NameLists == UNION { [1..n -> NameLabels] : n \in 0..MaxScopes }

-----------------------------------------------------------------------------
(* The state machine: a function of the module is called and returns; the  *)
(* host then takes the result.                                             *)

NoCall == [fn |-> "none"]

Init ==
    /\ pc = "idle"
    /\ call = NoCall
    /\ view = NoView
    /\ prefix = <<>>
    /\ locations = <<>>
    /\ result = None
    /\ data = StaticData

\* The host asks for completions.
Query ==
    /\ pc = "idle"
    /\ \E n \in 1..MaxCursors, k \in 0..MaxPrefix,
          st \in StartStacks, pv \in PrevStacks, cu \in CursorStacks :
          /\ k = 0 => cu = <<source_css>>      \* the cursor is the start of the prefix
          /\ n > 1 => Len(st) <= 2             \* several cursors: no scope is looked at
          /\ LET v == MakeView(k, st, pv, cu)
                 pfx == [i \in 1..k |-> "c"]
                 locs == [i \in 1..n |-> IF i = 1 THEN Cursor ELSE 0]
                 r == on_query_completions(data, v, pfx, locs)
             IN  /\ view' = v
                 /\ prefix' = pfx
                 /\ locations' = locs
                 /\ result' = r.value
                 /\ data' = r.data
    /\ call' = [fn |-> "on_query_completions"]
    /\ pc' = "returned"

\* handle_completions_inside_at_rules(view, location) on its own.
AtRules ==
    /\ pc = "idle"
    /\ \E st \in StartStacks :
          LET v == MakeView(0, st, <<source_css>>, <<source_css>>)
              r == handle_completions_inside_at_rules(data, v, Cursor)
          IN  /\ view' = v
              /\ result' = r.value
              /\ data' = r.data
    /\ call' = [fn |-> "handle_completions_inside_at_rules", location |-> Cursor]
    /\ pc' = "returned"
    /\ UNCHANGED <<prefix, locations>>

\* The three lookups on their own, on the scope names of a stack.
Functions ==
    /\ pc = "idle"
    /\ \E st \in StartStacks :
          LET scopes == [i \in 1..Len(st) |-> Str(st[i])]
              r == get_functions(data, scopes)
          IN  /\ call' = [fn |-> "get_functions", scopes |-> scopes]
              /\ result' = r.value
              /\ data' = r.data
    /\ pc' = "returned"
    /\ UNCHANGED <<view, prefix, locations>>

PropertyValues ==
    /\ pc = "idle"
    /\ \E st \in StartStacks :
          LET scopes == [i \in 1..Len(st) |-> Str(st[i])]
              r == get_property_values(data, scopes)
          IN  /\ call' = [fn |-> "get_property_values", scopes |-> scopes]
              /\ result' = r.value
              /\ data' = r.data
    /\ pc' = "returned"
    /\ UNCHANGED <<view, prefix, locations>>

Descriptors ==
    /\ pc = "idle"
    /\ \E st \in StartStacks,
          family \in {<<"font-face">>, <<"viewport">>, <<"counter-style">>, <<"color-profile">>} :
          LET scopes == [i \in 1..Len(st) |-> Str(st[i])]
              r == get_descriptors(data, scopes, family)
          IN  /\ call' = [fn |-> "get_descriptors", scopes |-> scopes,
                          descriptors_for |-> family]
              /\ result' = r.value
              /\ data' = r.data
    /\ pc' = "returned"
    /\ UNCHANGED <<view, prefix, locations>>

\* get_name(scopes, prefix) on its own.
Name ==
    /\ pc = "idle"
    /\ \E scopes \in NameLists, p \in NamePrefixes :
          /\ call' = [fn |-> "get_name", scopes |-> scopes, prefix |-> p]
          /\ result' = get_name(scopes, p)
    /\ pc' = "returned"
    /\ UNCHANGED <<view, prefix, locations, data>>

\* The host takes the result.
Return ==
    /\ pc = "returned"
    /\ pc' = "idle"
    /\ call' = NoCall
    /\ view' = NoView
    /\ prefix' = <<>>
    /\ locations' = <<>>
    /\ result' = None
    /\ UNCHANGED data

Next ==
    \/ Query
    \/ AtRules
    \/ Functions
    \/ PropertyValues
    \/ Descriptors
    \/ Name
    \/ Return

Spec == Init /\ [][Next]_vars

-----------------------------------------------------------------------------
(* Properties *)

Returned(fn) == pc = "returned" /\ call.fn = fn

\* The start of the prefix of the query that has returned.
Start == locations[1] - Len(prefix)

\* Some scope of the stack at the point has the dotted prefix sel.
HasScope(point, sel) ==
    \E i \in 1..Len(view[point]) : scope_matches(sel, view[point][i])

SingleCursorQuery == Returned("on_query_completions") /\ Len(locations) = 1

\* C1: a query with more than one cursor returns the empty list with the
\* inhibit flag, whatever the prefix and the scopes (comments included).
C1_MultipleCursorsRejected ==
    (Returned("on_query_completions") /\ Len(locations) > 1)
        => result = Inhibit(<<>>)

C1_Witness ==
    /\ Returned("on_query_completions")
    /\ Len(locations) > 1
    /\ HasScope(locations[1], comment_block)
    /\ result = Inhibit(<<>>)

\* C2 as stated: a single-cursor query whose start of prefix lies in a
\* comment returns the bare empty list, whatever the scopes at the cursor.
C2_CommentAtStartOfPrefix ==
    (SingleCursorQuery /\ HasScope(Start, comment_block))
        => result = List(<<>>)

\* C2 amended: a single-cursor query whose cursor lies in a comment returns
\* the bare empty list, for every prefix length and whatever the scopes at
\* the start of the prefix.
C2_CommentAtCursor ==
    (SingleCursorQuery /\ HasScope(locations[1], comment_block))
        => result = List(<<>>)

C2_Witness ==
    /\ SingleCursorQuery
    /\ Len(prefix) > 0
    /\ HasScope(locations[1], comment_block)
    /\ ~HasScope(Start, comment_block)
    /\ HasScope(Start, meta_function)
    /\ result = List(<<>>)

\* The six tests at the start of the prefix of the query that has returned.
P1 == InsideFunction(view, Start)
P2 == OutsideAtRules(view, Start)
P3 == InsideAtRule(view, Start)
P4 == property_name_scope(view, Start)
P5 == InsidePropertyValuePair(view, Start)
P6 == InsideSelector(view, Start)

\* The scope names at the start of the prefix, as the lookups receive them.
StartScopes == get_current_scopes(view, Start)

CascadeRuns == SingleCursorQuery /\ ~HasScope(locations[1], comment_block)

\* C3: outside comments a single-cursor query returns what the handler of
\* the first test that holds returns, in the order function, at-rule
\* keyword, at-rule, property name, property value, selector; no later
\* handler is tried when that handler returns nothing, and when no test
\* holds nothing is returned.
C3_FirstMatchingTestDecides ==
    CascadeRuns =>
        /\ P1 => result = get_functions(StaticData, StartScopes).value
        /\ (~P1 /\ P2) => result = Inhibit(StaticData.s_at_rules)
        /\ (~P1 /\ ~P2 /\ P3)
               => result = handle_completions_inside_at_rules(StaticData, view, Start).value
        /\ (~P1 /\ ~P2 /\ ~P3 /\ P4) => result = Inhibit(StaticData.p_names)
        /\ (~P1 /\ ~P2 /\ ~P3 /\ ~P4 /\ P5)
               => result = get_property_values(StaticData, StartScopes).value
        /\ (~P1 /\ ~P2 /\ ~P3 /\ ~P4 /\ ~P5 /\ P6)
               => result = handle_selector_completions(StaticData, view, Start).value
        /\ (~P1 /\ ~P2 /\ ~P3 /\ ~P4 /\ ~P5 /\ ~P6) => result = None

\* An at-rule block with a property list in it: the at-rule dispatch returns
\* nothing and the property names are not offered.
C3_Witness ==
    /\ CascadeRuns
    /\ ~P1 /\ ~P2 /\ P3 /\ P4
    /\ result = None

\* The free-text set of a lookup's own family, and the name it extracts.
OwnAllowSet ==
    CASE call.fn = "get_functions" -> StaticData.f_allow_word_completions
      [] call.fn = "get_descriptors" -> StaticData.d_allow_word_completions
      [] call.fn = "get_property_values" -> StaticData.p_allow_word_completions

OwnTable ==
    CASE call.fn = "get_functions" -> StaticData.f_func_name_to_completions
      [] call.fn = "get_descriptors" ->
             dict_get(StaticData.d_at_rule_to_completions_dict, call.descriptors_for, <<>>)
      [] call.fn = "get_property_values" -> StaticData.p_name_to_completions

NamePrefix ==
    CASE call.fn = "get_functions" -> Str(<<"meta", "function">>) \o <<".">>
      [] call.fn = "get_descriptors" ->
             Str(<<"meta", "descriptor">>) \o <<".">> \o call.descriptors_for
      [] call.fn = "get_property_values" -> Str(<<"meta", "property-value-pair">>) \o <<".">>

LookupReturned ==
    /\ pc = "returned"
    /\ call.fn \in {"get_functions", "get_descriptors", "get_property_values"}

ExtractedName == get_name(call.scopes, NamePrefix)

\* C4 as stated: a lookup does not inhibit word completions exactly when the
\* extracted name is non-empty and in the free-text set of its own family.
C4_OwnFamilyDecidesInhibit ==
    LookupReturned =>
        (~result.inhibit <=> (ExtractedName # <<>> /\ ExtractedName \in OwnAllowSet))

\* C5: a lookup returns the table's list for the extracted name (the empty
\* list when the name is empty or not in the table) followed by the one
\* var() placeholder.
C5_PlaceholderAppended ==
    LookupReturned =>
        result.items = dict_get(OwnTable, ExtractedName, <<>>) \o <<StaticData.t_var>>

C5_Witness ==
    /\ LookupReturned
    /\ ExtractedName \notin DOMAIN OwnTable
    /\ result.items = <<StaticData.t_var>>

NoDot(str) == \A i \in 1..Len(str) : str[i] # "."

\* seg is the dotted segment of str before its last one.
IsSecondToLastSegment(seg, str) ==
    \E i \in 0..Len(str), j \in 1..Len(str) :
        /\ i < j
        /\ i = 0 \/ str[i] = "."
        /\ str[j] = "."
        /\ seg = SubSeq(str, i + 1, j - 1)
        /\ NoDot(seg)
        /\ NoDot(SubSeq(str, j + 1, Len(str)))

\* C6: get_name returns the second-to-last dotted segment of the last scope
\* name of the list that starts with the prefix, whatever earlier names
\* match, and the empty string when no name starts with the prefix.
C6_NameOfLastMatchingScope ==
    Returned("get_name") =>
        LET matching == { i \in 1..Len(call.scopes) :
                              startswith(call.scopes[i], call.prefix) }
        IN  IF matching = {}
            THEN result = <<>>
            ELSE LET last == CHOOSE i \in matching : \A j \in matching : j <= i
                 IN  IsSecondToLastSegment(result, call.scopes[last])

\* ["a.b.css", "a.b.x.css"] with prefix "a.b" gives "x".
C6_Witness ==
    /\ Returned("get_name")
    /\ call.scopes = <<Str(<<"a", "b", "css">>), Str(<<"a", "b", "x", "css">>)>>
    /\ call.prefix = Str(<<"a", "b">>)
    /\ result = <<"x">>

\* The position of the at-rule dispatch that has returned.
InMediaOrSupports ==
    \/ HasScope(call.location, at_rule_block("media"))
    \/ HasScope(call.location, at_rule_block("supports"))

InForbiddingScope ==
    \E sel \in { meta_property_list,
                 at_rule_block("font-face"),
                 at_rule_block("keyframes"),
                 at_rule_block("font-feature-values"),
                 at_rule_block("viewport"),
                 at_rule_block("color-profile"),
                 at_rule_block("counter-style"),
                 at_rule_block("page") } : HasScope(call.location, sel)

\* Some scope a later branch of the dispatch asks for.
InLaterAtRule ==
    \E sel \in { at_rule_block("font-face"),
                 at_rule_block("keyframes"),
                 at_rule_block("font-feature-values"),
                 at_rule_block("viewport"),
                 at_rule_block("color-profile"),
                 at_rule_block("counter-style"),
                 at_rule_block("page"),
                 at_rule_page,
                 at_rule_charset } : HasScope(call.location, sel)

AtRulesReturned == Returned("handle_completions_inside_at_rules")

\* C7: in an @media or @supports block outside the eight forbidding scopes
\* the dispatch returns the nestable at-rules with the inhibit flag; inside
\* a forbidding scope it never returns them and goes on to the later
\* branches, returning nothing when none of them matches.
C7_NestedAtRules ==
    AtRulesReturned =>
        /\ (InMediaOrSupports /\ ~InForbiddingScope)
               => result = Inhibit(StaticData.s_nestable_at_rules)
        /\ (InMediaOrSupports /\ InForbiddingScope)
               => /\ result # Inhibit(StaticData.s_nestable_at_rules)
                  /\ result.items # StaticData.s_nestable_at_rules
                  /\ result = at_rule_branches(StaticData, view, call.location).value
                  /\ ~InLaterAtRule => result = None

C7_Witness ==
    /\ AtRulesReturned
    /\ HasScope(call.location, at_rule_block("media"))
    /\ HasScope(call.location, meta_property_list)
    /\ ~InLaterAtRule
    /\ result = None

InPageBlock == HasScope(call.location, at_rule_block("page"))
InMarginBox == HasScope(call.location, meta_page_margin_box)
InPageRule == HasScope(call.location, at_rule_page)

\* C8 as stated: inside a margin box of an @page block the dispatch offers
\* the margin-box keywords with the inhibit flag; inside the @page rule but
\* outside its block it offers the page selectors without the flag.
C8_MarginBoxesInsideMarginBox ==
    AtRulesReturned =>
        /\ (InPageBlock /\ InMarginBox) => result = Inhibit(StaticData.s_page_margin_boxes)
        /\ (InPageRule /\ ~InPageBlock) => result = List(StaticData.s_at_page_selectors)

\* A branch of the dispatch before the two @page branches applies.
EarlierBranchApplies ==
    \/ InMediaOrSupports /\ ~InForbiddingScope
    \/ /\ HasScope(call.location, at_rule_block("keyframes"))
       /\ ~HasScope(call.location, keyframes_declaration_list)
    \/ HasScope(call.location, at_rule_block("font-face"))
    \/ HasScope(call.location, at_rule_block("font-feature-values"))
    \/ HasScope(call.location, at_rule_block("viewport"))

\* C8 amended: where no earlier branch of the dispatch applies, inside an
\* @page block and outside every margin box the dispatch offers the
\* margin-box keywords with the inhibit flag, inside a margin box it does
\* not offer them, and inside the @page rule but outside its block it
\* offers the page selectors without the flag.
C8_MarginBoxesOutsideMarginBox ==
    (AtRulesReturned /\ ~EarlierBranchApplies) =>
        /\ (InPageBlock /\ ~InMarginBox) => result = Inhibit(StaticData.s_page_margin_boxes)
        /\ (InPageBlock /\ InMarginBox) => result.items # StaticData.s_page_margin_boxes
        /\ (InPageRule /\ ~InPageBlock) => result = List(StaticData.s_at_page_selectors)

C8_Witness ==
    /\ AtRulesReturned
    /\ InPageBlock /\ InMarginBox
    /\ result = None

\* The tests of the cascade that hold at the start of the prefix.
TestsThatHold ==
    { i \in 1..6 : <<P1, P2, P3, P4, P5, P6>>[i] }

\* C9 as stated: at most one of the six tests holds.
C9_TestsMutuallyExclusive ==
    Returned("on_query_completions") => Cardinality(TestsThatHold) <= 1

\* C9 amended: the at-rule keyword test and the at-rule test never hold
\* together, nor do the property-name test and the property-value test; the
\* other tests may hold together, and then the order decides.
C9_ExclusivePairs ==
    Returned("on_query_completions") => (~(P2 /\ P3) /\ ~(P4 /\ P5))

C9_Witness ==
    /\ CascadeRuns
    /\ P1 /\ P5 /\ ~P4
    /\ result = get_functions(StaticData, StartScopes).value
    /\ result # get_property_values(StaticData, StartScopes).value

\* C10: the completion tables keep the content they were loaded with: the
\* placeholder is appended to a new list, never to the stored one, so a
\* lookup's list holds it once however many calls came before.
C10_TablesNeverChange ==
    /\ data = StaticData
    /\ LookupReturned =>
           Cardinality({ i \in 1..Len(result.items) :
                             result.items[i] = StaticData.t_var }) = 1

C10_Witness ==
    /\ Returned("get_functions")
    /\ ExtractedName = <<"counter">>
    /\ result.items = StaticData.f_func_name_to_completions[<<"counter">>] \o <<"var()">>
    /\ data = StaticData

====
